---- MODULE Spec2Model ----
(***************************************************************************)
(* Model of the open-addressed hash table of package hashmap               *)
(* (HashMap[K, V]: table, size, capacity) together with the hash-code      *)
(* masking layer of internal/stringhasher.                                 *)
(*                                                                         *)
(* A slot of the bucket array is a Go pointer *Pair: either nil (the empty *)
(* sequence) or a reference to one pair (a one-element sequence).   Each   *)
(* public method is one action; the methods are translated as operators on *)
(* the receiver record [table, size, capacity], because Set and rehash     *)
(* call each other.                                                        *)
(***************************************************************************)
EXTENDS Integers, Sequences, FiniteSets, TLC

\* ---------------------------------------------------------------- constants

initialCapacity == 8

maximumLoad == 2

FlagCount == 8

\* ------------------------------------------------------------------- bounds

\* Delete is not called more than MaxDeletes times between two calls of Clear;
\* with the finite key universe this bounds size, and so capacity.
MaxDeletes == 2

\* ------------------------------------------------------------ keys and values

\* A key is the dynamic value any(key): its type and its value.
StrKey(s) == [isString |-> TRUE, str |-> s, num |-> 0]

IntKey(n) == [isString |-> FALSE, str |-> "", num |-> n]

StringKeys == {StrKey("Key"), StrKey("key")}

IntKeys == {IntKey(7)}

Keys == StringKeys \cup IntKeys

\* The keys of the histories without Delete: one more key, so that four
\* distinct keys can be Set.
MoreKeys == Keys \cup {IntKey(8)}

Values == {1, 2}

\* The zero value of the value type V (var zero V).
zero == 0

\* ------------------------------------------------------------------ hashing

\* ASCII case folding of the strings of the key universe.
FoldASCII(s) == IF s = "Key" THEN "key" ELSE s

FoldedStrings == {FoldASCII(k.str) : k \in StringKeys}

\* A uint64 is four 16-bit words, the most significant first.
U64(n) == <<0, 0, n \div 65536, n % 65536>>

\* uint32(x) of a uint64 whose bits 31 and above are clear.
U32(x) == x[3] * 65536 + x[4]

\* 64-bit results of rapidhash.Hash for the folded strings: the low 24 bits are
\* all that the table sees (0, 1 and 8 here).
RawHashes == {<<0, 0, 0, 0>>, <<48600, 39593, 33280, 1>>, <<0, 0, 65280, 8>>}

RECURSIVE BitAnd(_, _)
BitAnd(a, b) ==
    IF a = 0 \/ b = 0 THEN 0
    ELSE (a % 2) * (b % 2) + 2 * BitAnd(a \div 2, b \div 2)

And64(x, y) ==
    <<BitAnd(x[1], y[1]), BitAnd(x[2], y[2]), BitAnd(x[3], y[3]), BitAnd(x[4], y[4])>>

\* MaskTop8Bits without the substitution for a zero result.
MaskTop8Bits_NoSentinel(result) ==
    U32(And64(result, U64((2 ^ (32 - FlagCount)) - 1)))

MaskTop8Bits(result) ==
    LET masked == And64(result, U64((2 ^ (32 - FlagCount)) - 1))
    IN  IF masked = U64(0) THEN U32(U64(2 ^ (31 - FlagCount))) ELSE U32(masked)

VARIABLES
    table,      \* h.table: the bucket array, slot i of Go at position i + 1
    size,       \* h.size
    capacity,   \* h.capacity
    rawHash,    \* rapidhash.Hash of each folded string under the fixed SEED
    op,         \* the last public call: [name, key, value]
    ret,        \* what the last call returned: [value, found]
    pre,        \* what held when the last call was entered: [found, size, capacity]
    abs,        \* the pairs a map should hold: last value Set and not deleted since
    deletes,    \* number of Delete calls since New or the last Clear
    yielded,    \* what the last Iter passed to yield: [pairs, stopped]
    calc        \* a call of a pure function on its own: its input and its result

vars == <<table, size, capacity, rawHash, op, ret, pre, abs, deletes, yielded, calc>>

\* traits.CaseFoldingHash: fold the case, hash, mask the top 8 bits.
CaseFoldingHash(s) == MaskTop8Bits(rawHash[FoldASCII(s)])

hash(key) == IF key.isString THEN CaseFoldingHash(key.str) ELSE 0

\* -------------------------------------------------------------------- table

Nil == <<>>

Ref(pair) == <<pair>>

Pair(key, value) == [Key |-> key, Value |-> value]

EmptyTable(n) == [i \in 1..n |-> Nil]

index(h, code) == BitAnd(code, h.capacity - 1)

RECURSIVE findLoop(_, _, _, _)

\* find giving up after its second slot.
findLoop_GiveUpEarly(h, key, idx, count) ==
    IF h.table[idx + 1] = Nil
    THEN [idx |-> idx, found |-> FALSE, visits |-> <<idx>>]
    ELSE IF h.table[idx + 1][1].Key = key
    THEN [idx |-> idx, found |-> TRUE, visits |-> <<idx>>]
    ELSE IF count + 1 >= 2
    THEN [idx |-> idx, found |-> FALSE, visits |-> <<idx>>]
    ELSE LET r == findLoop(h, key, BitAnd(idx + count + 1, h.capacity - 1), count + 1)
         IN  [r EXCEPT !.visits = <<idx>> \o @]

\* find advancing by one slot at each step (linear probing).
findLoop_Linear(h, key, idx, count) ==
    IF h.table[idx + 1] = Nil
    THEN [idx |-> idx, found |-> FALSE, visits |-> <<idx>>]
    ELSE IF h.table[idx + 1][1].Key = key
    THEN [idx |-> idx, found |-> TRUE, visits |-> <<idx>>]
    ELSE IF count + 1 >= h.capacity
    THEN [idx |-> idx, found |-> FALSE, visits |-> <<idx>>]
    ELSE LET r == findLoop(h, key, BitAnd(idx + 1, h.capacity - 1), count + 1)
         IN  [r EXCEPT !.visits = <<idx>> \o @]

\* find advancing by the odd numbers, to the squares past the first slot.
findLoop_Squares(h, key, idx, count) ==
    IF h.table[idx + 1] = Nil
    THEN [idx |-> idx, found |-> FALSE, visits |-> <<idx>>]
    ELSE IF h.table[idx + 1][1].Key = key
    THEN [idx |-> idx, found |-> TRUE, visits |-> <<idx>>]
    ELSE IF count + 1 >= h.capacity
    THEN [idx |-> idx, found |-> FALSE, visits |-> <<idx>>]
    ELSE LET r == findLoop(h, key, BitAnd(idx + 2 * count + 1, h.capacity - 1), count + 1)
         IN  [r EXCEPT !.visits = <<idx>> \o @]

\* The loop of find, entered with idx and count; besides the two results of
\* find, visits lists the slots h.table[idx] the loop has read, in order.
findLoop(h, key, idx, count) ==
    IF h.table[idx + 1] = Nil
    THEN [idx |-> idx, found |-> FALSE, visits |-> <<idx>>]
    ELSE IF h.table[idx + 1][1].Key = key
    THEN [idx |-> idx, found |-> TRUE, visits |-> <<idx>>]
    ELSE IF count + 1 >= h.capacity
    THEN [idx |-> idx, found |-> FALSE, visits |-> <<idx>>]
    ELSE LET r == findLoop(h, key, BitAnd(idx + count + 1, h.capacity - 1), count + 1)
         IN  [r EXCEPT !.visits = <<idx>> \o @]

find(h, key) == findLoop(h, key, index(h, hash(key)), 0)

RECURSIVE SetOf(_, _, _)
RECURSIVE rehash(_)
RECURSIVE rehashLoop(_, _, _)

\* for _, pair := range old { if pair != nil { h.Set(pair.Key, pair.Value) } }
rehashLoop(old, i, h) ==
    IF i > Len(old) THEN h
    ELSE IF old[i] = Nil THEN rehashLoop(old, i + 1, h)
    ELSE rehashLoop(old, i + 1, SetOf(h, old[i][1].Key, old[i][1].Value))

\* rehash with the statement h.size = 0 left out.
rehash_KeepSize(h) ==
    rehashLoop(h.table, 1,
               [table    |-> EmptyTable(h.capacity * 2),
                size     |-> h.size,
                capacity |-> h.capacity * 2])

\* rehash growing by a factor that is no power of two.
rehash_Triple(h) ==
    rehashLoop(h.table, 1,
               [table    |-> EmptyTable(h.capacity * 3),
                size     |-> 0,
                capacity |-> h.capacity * 3])

rehash(h) ==
    rehashLoop(h.table, 1,
               [table    |-> EmptyTable(h.capacity * 2),
                size     |-> 0,
                capacity |-> h.capacity * 2])

\* Set growing the table only once the load has passed 50%.
SetOf_LateRehash(h, key, value) ==
    LET h1 == IF (h.size + 1) * maximumLoad > h.capacity THEN rehash(h) ELSE h
        r  == find(h1, key)
    IN  IF r.found
        THEN [h1 EXCEPT !.table[r.idx + 1] = Ref(Pair(@[1].Key, value))]
        ELSE [h1 EXCEPT !.table[r.idx + 1] = Ref(Pair(key, value)),
                        !.size = @ + 1]

\* Set growing the table only for a key that is not yet there.
SetOf_RehashOnInsert(h, key, value) ==
    LET h1 == IF ~find(h, key).found /\ (h.size + 1) * maximumLoad >= h.capacity
              THEN rehash(h) ELSE h
        r  == find(h1, key)
    IN  IF r.found
        THEN [h1 EXCEPT !.table[r.idx + 1] = Ref(Pair(@[1].Key, value))]
        ELSE [h1 EXCEPT !.table[r.idx + 1] = Ref(Pair(key, value)),
                        !.size = @ + 1]

SetOf(h, key, value) ==
    LET h1 == IF (h.size + 1) * maximumLoad >= h.capacity THEN rehash(h) ELSE h
        r  == find(h1, key)
    IN  IF r.found
        THEN [h1 EXCEPT !.table[r.idx + 1] = Ref(Pair(@[1].Key, value))]
        ELSE [h1 EXCEPT !.table[r.idx + 1] = Ref(Pair(key, value)),
                        !.size = @ + 1]

GetOf(h, key) ==
    LET r == find(h, key)
    IN  IF ~r.found THEN [value |-> zero, found |-> FALSE]
        ELSE [value |-> h.table[r.idx + 1][1].Value, found |-> TRUE]

ContainsOf(h, key) == find(h, key).found

\* Delete decrementing size whether or not the key was found.
DeleteOf_AlwaysDecrement(h, key) ==
    LET r == find(h, key)
    IN  IF ~r.found THEN [h |-> [h EXCEPT !.size = @ - 1], ok |-> FALSE]
        ELSE [h  |-> [h EXCEPT !.table[r.idx + 1] = Nil, !.size = @ - 1],
              ok |-> TRUE]

\* Delete with the statement h.size-- left out.
DeleteOf_KeepSize(h, key) ==
    LET r == find(h, key)
    IN  IF ~r.found THEN [h |-> h, ok |-> FALSE]
        ELSE [h  |-> [h EXCEPT !.table[r.idx + 1] = Nil],
              ok |-> TRUE]

DeleteOf(h, key) ==
    LET r == find(h, key)
    IN  IF ~r.found THEN [h |-> h, ok |-> FALSE]
        ELSE [h  |-> [h EXCEPT !.table[r.idx + 1] = Nil, !.size = @ - 1],
              ok |-> TRUE]

\* Clear with the statement h.size = 0 left out.
ClearOf_KeepSize(h) ==
    [table |-> EmptyTable(initialCapacity), size |-> h.size, capacity |-> initialCapacity]

ClearOf(h) ==
    [table |-> EmptyTable(initialCapacity), size |-> 0, capacity |-> initialCapacity]

RECURSIVE iterLoop(_, _, _, _)

\* The loop of Iter going on after yield has returned false.
iterLoop_IgnoreStop(tab, i, stop, out) ==
    IF i > Len(tab) THEN [pairs |-> out, stopped |-> stop > 0 /\ Len(out) >= stop]
    ELSE IF tab[i] = Nil THEN iterLoop(tab, i + 1, stop, out)
    ELSE iterLoop(tab, i + 1, stop, Append(out, <<tab[i][1].Key, tab[i][1].Value>>))

\* The loop of the function Iter returns; the consumer's yield returns false on
\* its stop-th call (never, if stop = 0).
iterLoop(tab, i, stop, out) ==
    IF i > Len(tab) THEN [pairs |-> out, stopped |-> FALSE]
    ELSE IF tab[i] = Nil THEN iterLoop(tab, i + 1, stop, out)
    ELSE LET out2 == Append(out, <<tab[i][1].Key, tab[i][1].Value>>)
         IN  IF Len(out2) = stop THEN [pairs |-> out2, stopped |-> TRUE]
             ELSE iterLoop(tab, i + 1, stop, out2)

IterOf(h, stop) == iterLoop(h.table, 1, stop, <<>>)

NewMap == [table |-> EmptyTable(initialCapacity), size |-> 0, capacity |-> initialCapacity]

\* ------------------------------------------------------------ state machine

\* The receiver h of the methods.
H == [table |-> table, size |-> size, capacity |-> capacity]

NoKey == IntKey(0)

Call(name, key, value) == [name |-> name, key |-> key, value |-> value]

Entry(key) == [found |-> find(H, key).found, size |-> size, capacity |-> capacity]

NoPair == zero

NoYield == [pairs |-> <<>>, stopped |-> FALSE]

\* No pure function is being called on its own.
Idle == [fn |-> "none"]

Init ==
    /\ table = NewMap.table
    /\ size = NewMap.size
    /\ capacity = NewMap.capacity
    /\ rawHash \in [FoldedStrings -> RawHashes]
    /\ op = Call("New", NoKey, zero)
    /\ ret = [value |-> zero, found |-> FALSE]
    /\ pre = [found |-> FALSE, size |-> 0, capacity |-> initialCapacity]
    /\ abs = [k \in MoreKeys |-> NoPair]
    /\ deletes = 0
    /\ yielded = NoYield
    /\ calc = Idle

Set(key, value) ==
    LET h2 == SetOf(H, key, value)
    IN  /\ table' = h2.table
        /\ size' = h2.size
        /\ capacity' = h2.capacity
        /\ op' = Call("Set", key, value)
        /\ ret' = [value |-> zero, found |-> FALSE]
        /\ pre' = Entry(key)
        /\ abs' = [abs EXCEPT ![key] = value]
        /\ yielded' = NoYield
        /\ UNCHANGED <<rawHash, deletes, calc>>

Get(key) ==
    /\ op' = Call("Get", key, zero)
    /\ ret' = GetOf(H, key)
    /\ pre' = Entry(key)
    /\ yielded' = NoYield
    /\ UNCHANGED <<table, size, capacity, rawHash, abs, deletes, calc>>

Contains(key) ==
    /\ op' = Call("Contains", key, zero)
    /\ ret' = [value |-> zero, found |-> ContainsOf(H, key)]
    /\ pre' = Entry(key)
    /\ yielded' = NoYield
    /\ UNCHANGED <<table, size, capacity, rawHash, abs, deletes, calc>>

Delete(key) ==
    LET d == DeleteOf(H, key)
    IN  /\ deletes < MaxDeletes
        /\ table' = d.h.table
        /\ size' = d.h.size
        /\ capacity' = d.h.capacity
        /\ op' = Call("Delete", key, zero)
        /\ ret' = [value |-> zero, found |-> d.ok]
        /\ pre' = Entry(key)
        /\ abs' = [abs EXCEPT ![key] = NoPair]
        /\ deletes' = deletes + 1
        /\ yielded' = NoYield
        /\ UNCHANGED <<rawHash, calc>>

Clear ==
    LET h2 == ClearOf(H)
    IN  /\ table' = h2.table
        /\ size' = h2.size
        /\ capacity' = h2.capacity
        /\ op' = Call("Clear", NoKey, zero)
        /\ ret' = [value |-> zero, found |-> FALSE]
        /\ pre' = [found |-> FALSE, size |-> size, capacity |-> capacity]
        /\ abs' = [k \in MoreKeys |-> NoPair]
        /\ deletes' = 0
        /\ yielded' = NoYield
        /\ UNCHANGED <<rawHash, calc>>

Size ==
    /\ op' = Call("Size", NoKey, zero)
    /\ ret' = [value |-> size, found |-> FALSE]
    /\ pre' = [found |-> FALSE, size |-> size, capacity |-> capacity]
    /\ yielded' = NoYield
    /\ UNCHANGED <<table, size, capacity, rawHash, abs, deletes, calc>>

Capacity ==
    /\ op' = Call("Capacity", NoKey, zero)
    /\ ret' = [value |-> capacity, found |-> FALSE]
    /\ pre' = [found |-> FALSE, size |-> size, capacity |-> capacity]
    /\ yielded' = NoYield
    /\ UNCHANGED <<table, size, capacity, rawHash, abs, deletes, calc>>

\* Iter and a complete run of the function it returns, on a table that is not
\* modified meanwhile.
Iter(stop) ==
    /\ op' = Call("Iter", NoKey, stop)
    /\ ret' = [value |-> zero, found |-> FALSE]
    /\ pre' = [found |-> FALSE, size |-> size, capacity |-> capacity]
    /\ yielded' = IterOf(H, stop)
    /\ UNCHANGED <<table, size, capacity, rawHash, abs, deletes, calc>>

Next ==
    \/ \E key \in Keys, value \in Values : Set(key, value)
    \/ \E key \in Keys : Get(key)
    \/ \E key \in Keys : Contains(key)
    \/ \E key \in Keys : Delete(key)
    \/ Clear
    \/ Size
    \/ Capacity

Spec == Init /\ [][Next]_vars

\* The histories that contain no Delete, over the larger key universe.
NextNoDelete ==
    \/ \E key \in MoreKeys, value \in Values : Set(key, value)
    \/ \E key \in MoreKeys : Get(key)
    \/ \E key \in MoreKeys : Contains(key)
    \/ Clear
    \/ Size
    \/ Capacity

SpecNoDelete == Init /\ [][NextNoDelete]_vars

\* The tables the mutators build, each iterated without being modified
\* meanwhile.
NextIter ==
    \/ \E key \in Keys, value \in Values : Set(key, value)
    \/ \E key \in Keys : Delete(key)
    \/ Clear
    \/ \E stop \in 0..size : Iter(stop)

SpecIter == Init /\ [][NextIter]_vars

\* ------------------------------------------------- pure functions on their own

\* The table is that of New() while a pure function is called on its own.
PureInit ==
    /\ table = NewMap.table
    /\ size = NewMap.size
    /\ capacity = NewMap.capacity
    /\ rawHash = [s \in FoldedStrings |-> U64(0)]
    /\ op = Call("New", NoKey, zero)
    /\ ret = [value |-> zero, found |-> FALSE]
    /\ pre = [found |-> FALSE, size |-> 0, capacity |-> initialCapacity]
    /\ abs = [k \in MoreKeys |-> NoPair]
    /\ deletes = 0
    /\ yielded = NoYield

tableVars == <<table, size, capacity, rawHash, op, ret, pre, abs, deletes, yielded>>

\* The 16-bit words the 64-bit inputs are built from.
Words == {0, 1, 255, 256, 32768, 65535}

MaskInputs == [1..4 -> Words]

InitMask ==
    /\ PureInit
    /\ calc \in {[fn |-> "MaskTop8Bits", in |-> h, out |-> 0, done |-> FALSE] :
                    h \in MaskInputs}

CallMaskTop8Bits ==
    /\ calc.fn = "MaskTop8Bits"
    /\ ~calc.done
    /\ calc' = [calc EXCEPT !.out = MaskTop8Bits(calc.in), !.done = TRUE]
    /\ UNCHANGED tableVars

SpecMask == InitMask /\ [][CallMaskTop8Bits]_vars

\* find on its own, on bucket arrays of every shape a probe can meet: all slots
\* occupied by another key, but for one slot that is empty or holds the key.
ProbeCapacities == {8, 16, 32}

ProbeKey == StrKey("key")

OtherPair == Ref(Pair(IntKey(7), 1))

ProbeTable(c, kind, p) ==
    [i \in 1..c |->
        IF i - 1 # p \/ kind = "full" THEN OtherPair
        ELSE IF kind = "hole" THEN Nil
        ELSE Ref(Pair(ProbeKey, 2))]

InitProbe ==
    \E c \in ProbeCapacities, kind \in {"full", "hole", "match"} :
    \E p \in 0..(c - 1), i0 \in 0..(c - 1) :
        /\ table = ProbeTable(c, kind, IF kind = "full" THEN 0 ELSE p)
        /\ size = IF kind = "hole" THEN c - 1 ELSE c
        /\ capacity = c
        /\ rawHash = [s \in FoldedStrings |-> U64(i0)]
        /\ op = Call("New", NoKey, zero)
        /\ ret = [value |-> zero, found |-> FALSE]
        /\ pre = [found |-> FALSE, size |-> 0, capacity |-> c]
        /\ abs = [k \in MoreKeys |-> NoPair]
        /\ deletes = 0
        /\ yielded = NoYield
        /\ calc = [fn |-> "find", done |-> FALSE,
                   out |-> [idx |-> 0, found |-> FALSE, visits |-> <<>>]]

CallFind ==
    /\ calc.fn = "find"
    /\ ~calc.done
    /\ calc' = [calc EXCEPT !.out = find(H, ProbeKey), !.done = TRUE]
    /\ UNCHANGED tableVars

SpecProbe == InitProbe /\ [][CallFind]_vars

\* The byte reads of rapidhash.Hash on a buffer of a given length: only the
\* length decides which bytes are read and how many blocks are consumed.
MaxLen == 100

\* The bytes data[lo], ..., data[hi - 1].
Read(lo, hi) == [lo |-> lo, hi |-> hi]

\* One pass of the block loop over p = data[at:]: six 8-byte words.
BlockReads(at) ==
    [w \in 1..6 |-> Read(at + 8 * (w - 1), at + 8 * w)]

RECURSIVE blockLoop(_, _, _)
blockLoop(length, i, acc) ==
    IF i >= 48
    THEN blockLoop(length, i - 48,
                   [blocks |-> acc.blocks + 1,
                    reads  |-> acc.reads \o BlockReads(length - i)])
    ELSE [i |-> i, blocks |-> acc.blocks, reads |-> acc.reads]

NoBlocks == [blocks |-> 0, reads |-> <<>>]

\* The tail passes over p = data[length - i:].
TailReads(length, i) ==
    IF i > 16
    THEN <<Read(length - i, length - i + 8), Read(length - i + 8, length - i + 16)>>
         \o (IF i > 32
             THEN <<Read(length - i + 16, length - i + 24),
                    Read(length - i + 24, length - i + 32)>>
             ELSE <<>>)
    ELSE <<>>

\* Hash entering the block loop at 48 bytes already.
Hash_BlockAt48(length) ==
    IF length <= 16
    THEN IF length >= 4
         THEN LET delta == BitAnd(length, 24) \div (2 ^ (length \div 8))
              IN  [blocks |-> 0, rest |-> length,
                   reads |-> <<Read(0, 4), Read(length - 4, length),
                               Read(delta, delta + 4),
                               Read(length - 4 - delta, length - delta)>>]
         ELSE IF length > 0
         THEN [blocks |-> 0, rest |-> length,
               reads |-> <<Read(0, 1), Read(length \div 2, length \div 2 + 1),
                           Read(length - 1, length)>>]
         ELSE [blocks |-> 0, rest |-> length, reads |-> <<>>]
    ELSE LET loop == IF length >= 48
                     THEN blockLoop(length, length, NoBlocks)
                     ELSE [i |-> length, blocks |-> 0, reads |-> <<>>]
         IN  [blocks |-> loop.blocks, rest |-> loop.i,
              reads |-> loop.reads \o TailReads(length, loop.i)
                        \o <<Read(length - 16, length - 8), Read(length - 8, length)>>]

\* blocks: passes of the block loop; rest: i after it, the bytes left for the
\* tail passes; reads: every byte range read, in program order.  The indices are
\* uint64 in the code: a negative one here is an index that wrapped there.
Hash(length) ==
    IF length <= 16
    THEN IF length >= 4
         THEN LET delta == BitAnd(length, 24) \div (2 ^ (length \div 8))
              IN  [blocks |-> 0, rest |-> length,
                   reads |-> <<Read(0, 4), Read(length - 4, length),
                               Read(delta, delta + 4),
                               Read(length - 4 - delta, length - delta)>>]
         ELSE IF length > 0
         THEN [blocks |-> 0, rest |-> length,
               reads |-> <<Read(0, 1), Read(length \div 2, length \div 2 + 1),
                           Read(length - 1, length)>>]
         ELSE [blocks |-> 0, rest |-> length, reads |-> <<>>]
    ELSE LET loop == IF length > 48
                     THEN blockLoop(length, length, NoBlocks)
                     ELSE [i |-> length, blocks |-> 0, reads |-> <<>>]
         IN  [blocks |-> loop.blocks, rest |-> loop.i,
              reads |-> loop.reads \o TailReads(length, loop.i)
                        \o <<Read(length - 16, length - 8), Read(length - 8, length)>>]

InitHash ==
    /\ PureInit
    /\ calc \in {[fn |-> "Hash", in |-> length,
                  out |-> [blocks |-> 0, rest |-> 0, reads |-> <<>>],
                  done |-> FALSE] : length \in 0..MaxLen}

CallHash ==
    /\ calc.fn = "Hash"
    /\ ~calc.done
    /\ calc' = [calc EXCEPT !.out = Hash(calc.in), !.done = TRUE]
    /\ UNCHANGED tableVars

SpecHash == InitHash /\ [][CallHash]_vars

\* ------------------------------------------------------------------ helpers

Occupied == {i \in 1..Len(table) : table[i] # Nil}

RECURSIVE IsPowerOfTwo(_)
IsPowerOfTwo(n) ==
    IF n = 1 THEN TRUE
    ELSE IF n < 1 \/ n % 2 = 1 THEN FALSE
    ELSE IsPowerOfTwo(n \div 2)

SameLetters(k1, k2) ==
    /\ k1.isString
    /\ k2.isString
    /\ FoldASCII(k1.str) = FoldASCII(k2.str)

\* A Set entered in the current state starts with a rehash.
SetRehashes == (size + 1) * maximumLoad >= capacity

\* The receiver inside that rehash when the range loop has gone through the
\* first n slots of the old bucket array: the rehash of the table cut down to
\* these slots.  n = capacity gives the receiver when rehash returns.
RehashState(n) ==
    rehash([H EXCEPT !.table = [i \in 1..Len(table) |->
                                    IF i <= n THEN table[i] ELSE Nil]])

\* The receivers find and Set work on: the current one and, when a Set would
\* rehash, those between the re-insertions.
Receivers ==
    {H} \cup (IF SetRehashes THEN {RehashState(n) : n \in 0..capacity} ELSE {})

\* -------------------------------------------------------------------- claims

\* C1: after Set(k, v), Get(k) returns (v, true) through every later operation,
\* until k itself is deleted (Delete(k) or Clear) or overwritten by Set(k, ...).
C1_RoundTrip ==
    \A k \in Keys :
        abs[k] # NoPair => GetOf(H, k) = [value |-> abs[k], found |-> TRUE]

\* C2: no two occupied slots of the bucket array hold equal keys.
C2_NoDuplicateKeys ==
    \A i \in Occupied : \A j \in Occupied :
        i # j => table[i][1].Key # table[j][1].Key

\* C3: with a hash that is invariant under letter case, Get of a key that differs
\* only in letter case from the key of a stored pair finds that pair.
C3_CaseInsensitiveLookup ==
    (/\ op.name = "Get"
     /\ \E i \in Occupied : SameLetters(table[i][1].Key, op.key))
    => /\ ret.found
       /\ \E i \in Occupied :
            /\ SameLetters(table[i][1].Key, op.key)
            /\ table[i][1].Value = ret.value

\* C4: the load factor stays under 50% after every public operation:
\* Size() * 2 < Capacity(); a Set that occupied an empty slot did so with
\* (size + 1) * 2 < capacity, size being the count before the insertion.
C4_LoadFactor ==
    /\ size * 2 < capacity
    /\ (op.name = "Set" /\ ~pre.found /\ size > 0)
       => LET before == size - 1 IN (before + 1) * maximumLoad < capacity

C4_Witness ==
    /\ op.name = "Set"
    /\ ~pre.found
    /\ pre.capacity = initialCapacity
    /\ capacity = 2 * initialCapacity
    /\ pre.size = 3
    /\ size * 2 < capacity

\* C5: Capacity() is a power of two, at least 8, and the bucket array has exactly
\* Capacity() slots, so that index(code) is a valid slot index.
C5_CapacityPowerOfTwo ==
    /\ IsPowerOfTwo(capacity)
    /\ capacity >= 8
    /\ Len(table) = capacity
    /\ \A k \in Keys : index(H, hash(k)) \in 0..(Len(table) - 1)

C5_Witness ==
    /\ op.name = "Set"
    /\ pre.capacity = initialCapacity
    /\ capacity = 2 * initialCapacity
    /\ \E k \in Keys : index(H, hash(k)) >= initialCapacity

\* C6: when Get(k) reports found, Set(k, v2) leaves Size() unchanged and Get(k)
\* then returns (v2, true).
C6_UpdateNotInsert ==
    (op.name = "Set" /\ pre.found)
    => /\ size = pre.size
       /\ GetOf(H, op.key) = [value |-> op.value, found |-> TRUE]

\* C7: Size() is 0 on a new table; a Set of a key that is not found increases
\* Size() by exactly 1, a Delete that returns true decreases it by exactly 1,
\* and a Delete that returns false leaves it unchanged.
C7_SizeBookkeeping ==
    /\ op.name = "New" => size = 0
    /\ (op.name = "Set" /\ ~pre.found) => size = pre.size + 1
    /\ (op.name = "Delete" /\ ret.found) => size = pre.size - 1
    /\ (op.name = "Delete" /\ ~ret.found) => size = pre.size

\* C8: in a history without Delete since New or the last Clear, every key that
\* was Set is found with its most recently set value, and Size() is the number
\* of distinct keys set.
C8_NoDeleteHistory ==
    deletes = 0
    => /\ \A k \in MoreKeys :
            abs[k] # NoPair => GetOf(H, k) = [value |-> abs[k], found |-> TRUE]
       /\ size = Cardinality({k \in MoreKeys : abs[k] # NoPair})

\* Scenario A: the fourth Set of a new key rehashed to 16 and all four keys,
\* one of them overwritten since, are held.
C8_Witness ==
    /\ deletes = 0
    /\ capacity = 2 * initialCapacity
    /\ size = 4
    /\ op.name = "Set"
    /\ pre.found
    /\ \A k \in MoreKeys : abs[k] # NoPair
    /\ \E k \in MoreKeys : abs[k] # op.value

\* C9: Clear from any state yields Size() = 0, Capacity() = 8 and every slot
\* empty, so that no key is found; the state is that of New(), and a second
\* Clear changes nothing.
C9_Clear ==
    op.name = "Clear"
    => /\ size = 0
       /\ capacity = 8
       /\ \A i \in 1..Len(table) : table[i] = Nil
       /\ \A k \in Keys : ~ContainsOf(H, k)
       /\ H = NewMap
       /\ ClearOf(H) = H

C9_Witness ==
    /\ op.name = "Clear"
    /\ pre.capacity = 2 * initialCapacity
    /\ pre.size > 0

\* C10: Get, Contains, Size and Capacity, and a Delete that returns false, leave
\* the bucket array, size and capacity unchanged; Get of a key that is not found
\* returns the zero value and false.
C10_NonMutating ==
    /\ [][ (\/ op'.name \in {"Get", "Contains", "Size", "Capacity"}
            \/ (op'.name = "Delete" /\ ~ret'.found))
           => UNCHANGED <<table, size, capacity>> ]_vars
    /\ []((op.name = "Get" /\ ~pre.found) => ret = [value |-> zero, found |-> FALSE])

C10_Witness ==
    /\ op.name = "Delete"
    /\ ~ret.found
    /\ size > 0
    /\ \E i \in Occupied : table[i][1].Key = op.key

\* The position in the bucket array of the n-th occupied slot, in index order.
NthOccupied(n) ==
    CHOOSE i \in Occupied : Cardinality({j \in Occupied : j <= i}) = n

\* C11: Iter run to completion yields exactly the pairs of the occupied slots in
\* increasing bucket-index order, each slot once, hence Size() pairs; once yield
\* has returned false no further pair is yielded.
C11_IterBucketOrder ==
    op.name = "Iter"
    => /\ \A n \in 1..Len(yielded.pairs) :
            yielded.pairs[n] = <<table[NthOccupied(n)][1].Key,
                                 table[NthOccupied(n)][1].Value>>
       /\ ~yielded.stopped
          => /\ Len(yielded.pairs) = Cardinality(Occupied)
             /\ Len(yielded.pairs) = size
       /\ yielded.stopped => Len(yielded.pairs) = op.value
       /\ (op.value > 0 /\ op.value <= Cardinality(Occupied)) => yielded.stopped

\* A completed iteration over a table with a hole between two pairs.
C11_Witness ==
    /\ op.name = "Iter"
    /\ ~yielded.stopped
    /\ Len(yielded.pairs) = 2
    /\ \E i \in 1..Len(table) : table[i] = Nil /\ i < NthOccupied(2)

\* An iteration the consumer stopped before the last pair.
C11_WitnessStopped ==
    /\ op.name = "Iter"
    /\ yielded.stopped
    /\ Len(yielded.pairs) < size

\* The low 24 bits of a uint64, by arithmetic on its two low words.
Low24(x) == (x[3] % 256) * 65536 + x[4]

\* C12: MaskTop8Bits(h) is never 0, is below 2^24 (the top 8 bits of the 32-bit
\* result are clear), equals h & (2^24 - 1) when that is not zero and 2^23
\* otherwise, for any 64-bit h.
C12_MaskNonZero ==
    (calc.fn = "MaskTop8Bits" /\ calc.done)
    => /\ calc.out # 0
       /\ calc.out > 0
       /\ calc.out < 2 ^ 24
       /\ Low24(calc.in) # 0 => calc.out = Low24(calc.in)
       /\ Low24(calc.in) = 0 => calc.out = 2 ^ 23

\* An input with only high bits set, and the input 0, give the sentinel.
C12_Witness ==
    /\ calc.fn = "MaskTop8Bits"
    /\ calc.done
    /\ calc.in = <<65535, 65535, 256, 0>>
    /\ calc.out = 2 ^ 23

\* The initial index of a key.
ProbeStart(key) == BitAnd(hash(key), capacity - 1)

\* C13, as claimed: the i-th probe of find (i = 1, 2, 3, ...) visits slot
\* (i0 + i) & (capacity - 1), i0 being hash(key) & (capacity - 1).
C13_ProbeLinear ==
    \A key \in Keys :
        LET v == find(H, key).visits
        IN  \A i \in 1..(Len(v) - 1) :
                v[i + 1] = BitAnd(ProbeStart(key) + i, capacity - 1)

\* C13, amended: find starts at i0 and its i-th probe visits slot
\* (i0 + i * (i + 1) / 2) & (capacity - 1): the steps grow by one each time.
C13_ProbeTriangular ==
    \A key \in Keys :
        LET v == find(H, key).visits
        IN  /\ v[1] = ProbeStart(key)
            /\ \A i \in 1..(Len(v) - 1) :
                  v[i + 1] = BitAnd(ProbeStart(key) + (i * (i + 1)) \div 2,
                                    capacity - 1)

\* A key whose probe ends at its fourth slot, six slots past its initial index.
C13_Witness ==
    \E key \in Keys :
        LET r == find(H, key)
        IN  /\ Len(r.visits) = 4
            /\ r.idx = ProbeStart(key) + 6

\* C14: find ends after at most capacity slot visits, and when no visited slot
\* is empty or holds the key, these are capacity visits to pairwise distinct
\* slots: the probe covers the whole bucket array before it gives up.
C14_ProbeCoversTable ==
    (calc.fn = "find" /\ calc.done)
    => LET v == calc.out.visits
           exhausted == \A n \in 1..Len(v) :
                            /\ table[v[n] + 1] # Nil
                            /\ table[v[n] + 1][1].Key # ProbeKey
       IN  /\ Len(v) <= capacity
           /\ Len(v) >= 1
           /\ exhausted
              => /\ Len(v) = capacity
                 /\ \A m \in 1..Len(v) : \A n \in 1..Len(v) : m # n => v[m] # v[n]
                 /\ {v[n] : n \in 1..Len(v)} = 0..(capacity - 1)
                 /\ ~calc.out.found

\* A probe that gave up on a bucket array of 32 occupied slots.
C14_Witness ==
    /\ calc.fn = "find"
    /\ calc.done
    /\ capacity = 32
    /\ ~calc.out.found
    /\ table[calc.out.idx + 1] # Nil
    /\ Len(calc.out.visits) = 32

\* C15: the probe of find never exhausts the table: find stops at an empty slot
\* or at a slot holding the key, also on the receivers inside a rehash, so it
\* never returns (idx, false) with slot idx occupied, and Set never replaces a
\* pair that holds another key: every key of the table is still there after it.
C15_ProbeNeverExhausts ==
    /\ [](\A h \in Receivers : \A key \in Keys :
            LET r == find(h, key)
            IN  /\ r.found \/ h.table[r.idx + 1] = Nil
                /\ r.found => h.table[r.idx + 1][1].Key = key
                /\ Len(r.visits) < h.capacity)
    /\ [][ op'.name = "Set"
           => \A i \in 1..Len(table) :
                 table[i] # Nil
                 => \E j \in 1..Len(table') :
                       /\ table'[j] # Nil
                       /\ table'[j][1].Key = table[i][1].Key ]_vars

\* A Set that placed a new key at its fourth probe, past three other pairs.
C15_Witness ==
    /\ op.name = "Set"
    /\ ~pre.found
    /\ LET r == find(H, op.key)
       IN  /\ r.found
           /\ Len(r.visits) = 4
           /\ \A n \in 1..3 : table[r.visits[n] + 1] # Nil

\* C16: a Set doubles Capacity() exactly once if (size + 1) * 2 >= capacity held
\* at entry, whether or not the key is present, and otherwise leaves it
\* unchanged; no re-insertion inside rehash starts a nested rehash; Delete, Get
\* and Contains leave Capacity() unchanged; only Clear lowers it, to 8.
C16_CapacityTransitions ==
    /\ op.name = "Set"
       => capacity = IF (pre.size + 1) * 2 >= pre.capacity
                     THEN 2 * pre.capacity ELSE pre.capacity
    /\ SetRehashes
       => \A n \in 0..capacity :
             /\ RehashState(n).capacity = 2 * capacity
             /\ n < capacity => (RehashState(n).size + 1) * 2 < RehashState(n).capacity
    /\ op.name \in {"Delete", "Get", "Contains"} => capacity = pre.capacity
    /\ op.name = "Clear" => capacity = 8
    /\ capacity < pre.capacity => op.name = "Clear"

\* A Set of a key that was already present, and doubled the capacity.
C16_Witness ==
    /\ op.name = "Set"
    /\ pre.found
    /\ pre.size = 3
    /\ pre.capacity = initialCapacity
    /\ capacity = 2 * initialCapacity

\* C17: the rehash step performed inside Set preserves the contents: right
\* after the re-insertion loop (before the new key is placed) size equals the
\* size before the rehash, and every key that Get found before the rehash is
\* found afterwards with the same value.
C17_RehashPreserves ==
    SetRehashes
    => /\ rehash(H).size = size
       /\ \A key \in Keys :
             GetOf(H, key).found => GetOf(rehash(H), key) = GetOf(H, key)

\* The part of C17 about the values alone.
C17_RehashKeepsValues ==
    SetRehashes
    => \A key \in Keys :
          GetOf(H, key).found => GetOf(rehash(H), key) = GetOf(H, key)

\* C17 restricted to tables without duplicate keys (the tables C2 describes).
C17_RehashPreservesDistinct ==
    C2_NoDuplicateKeys => C17_RehashPreserves

\* C18: a deleted key stays deleted: after Delete(k) returned true, Get(k)
\* returns (zero, false) and Contains(k) is false, and a following Set or Delete
\* of another key leaves it so.
C18_DeletedStaysDeleted ==
    /\ []((op.name = "Delete" /\ ret.found)
          => /\ GetOf(H, op.key) = [value |-> zero, found |-> FALSE]
             /\ ~ContainsOf(H, op.key))
    /\ [][ (/\ op.name = "Delete"
            /\ ret.found
            /\ op'.name \in {"Set", "Delete"}
            /\ op'.key # op.key)
           => LET h == [table |-> table', size |-> size', capacity |-> capacity']
              IN  /\ GetOf(h, op.key) = [value |-> zero, found |-> FALSE]
                  /\ ~ContainsOf(h, op.key) ]_vars

\* The part of C18 about the state right after the Delete.
C18_DeletedNotFound ==
    (op.name = "Delete" /\ ret.found)
    => /\ GetOf(H, op.key) = [value |-> zero, found |-> FALSE]
       /\ ~ContainsOf(H, op.key)

\* C19: in every reachable state, and in the states between the re-insertions
\* of a rehash, the size field equals the number of occupied slots of the
\* bucket array.
C19_SizeCountsSlots ==
    \A h \in Receivers :
        h.size = Cardinality({i \in 1..Len(h.table) : h.table[i] # Nil})

\* A Set is about to rehash a table that two Deletes left with a duplicate key:
\* the re-insertion loop passes through states with 0, 1 and 2 pairs.
C19_Witness ==
    /\ SetRehashes
    /\ deletes = 2
    /\ ~C2_NoDuplicateKeys
    /\ {RehashState(n).size : n \in 0..capacity} = {0, 1, 2}

\* Every byte range Hash read lies inside a buffer of the given length.
ReadsInside(length, reads) ==
    \A n \in 1..Len(reads) :
        /\ 0 <= reads[n].lo
        /\ reads[n].lo < reads[n].hi
        /\ reads[n].hi <= length

\* The first 6 * blocks reads are the 48-byte blocks from the front of the
\* buffer, in order.
BlocksFromFront(out) ==
    /\ Len(out.reads) >= 6 * out.blocks
    /\ \A n \in 1..(6 * out.blocks) :
          out.reads[n] = Read(8 * (n - 1), 8 * n)

\* C20 as stated: for every input longer than 16 bytes Hash consumes
\* floor(length / 48) 48-byte blocks from the front, so that fewer than 48
\* bytes are left for the tail passes; and for every length all byte reads stay
\* inside the buffer.
C20_BlocksWhile48Remain ==
    (calc.fn = "Hash" /\ calc.done)
    => /\ calc.in > 16
          => /\ calc.out.blocks = calc.in \div 48
             /\ BlocksFromFront(calc.out)
             /\ calc.out.rest < 48
       /\ ReadsInside(calc.in, calc.out.reads)

\* C20 amended: for every input longer than 48 bytes Hash consumes
\* floor(length / 48) blocks from the front and leaves length mod 48 < 48 bytes
\* to the tail passes; an input of 17 to 48 bytes is consumed by no block and
\* left whole to the tail passes (48 bytes when length is 48); and for every
\* length all byte reads stay inside the buffer.
C20_BlocksAbove48 ==
    (calc.fn = "Hash" /\ calc.done)
    => /\ calc.in > 48
          => /\ calc.out.blocks = calc.in \div 48
             /\ BlocksFromFront(calc.out)
             /\ calc.out.rest = calc.in % 48
       /\ calc.in \in 17..48
          => /\ calc.out.blocks = 0
             /\ calc.out.rest = calc.in
       /\ ReadsInside(calc.in, calc.out.reads)

\* Hash on 97 bytes: two blocks from the front, one byte left, and the two
\* closing words read from the end of the buffer.
C20_Witness ==
    /\ calc.fn = "Hash"
    /\ calc.done
    /\ calc.in = 97
    /\ calc.out.blocks = 2
    /\ calc.out.rest = 1
    /\ Len(calc.out.reads) = 14
    /\ calc.out.reads[14] = Read(89, 97)

====
